---- MODULE Spec2Model ----
(***************************************************************************)
(* A model of a_kvnl.py: the annotated key/value line codec.               *)
(*                                                                         *)
(* Python objects are records tagged by their runtime type in field t.     *)
(* A str is a sequence of code points, a bytes object a sequence of        *)
(* numbers in 0..255, so that every converter of DECODERS and ENCODERS is  *)
(* computed character by character.                                        *)
(***************************************************************************)
EXTENDS Integers, Sequences, FiniteSets, TLC

(***************************************************************************)
(* Bounds of the model.                                                    *)
(***************************************************************************)
\* longest input stream handed to decode_line / decode_block
MaxStream == 3
\* largest magnitude of an int value that is encoded
MaxInt == 12
\* longest input sequence handed to encode_block
MaxLines == 2

(***************************************************************************)
(* Python values.                                                          *)
(***************************************************************************)
PyNone == [t |-> "NoneType"]
PyBytes(b) == [t |-> "bytes", b |-> b]
PyInt(n) == [t |-> "int", n |-> n]
PyStr(s) == [t |-> "str", s |-> s]
\* a float: k is "fin" (h hundredths, the double nearest to h/100),
\* "inf" (h is the sign) or "nan"
PyFloat(k, h) == [t |-> "float", k |-> k, h |-> h]
\* a datetime; tz is <<>> for a naive value, <<minutes>> for a fixed offset
PyDatetime(y, mo, d, h, mi, s, us, tz) ==
    [t |-> "datetime", y |-> y, mo |-> mo, d |-> d, h |-> h, mi |-> mi,
     s |-> s, us |-> us, tz |-> tz]
\* a 2-tuple
PyTuple(a, v) == [t |-> "tuple", a |-> a, v |-> v]
\* the value some caller-supplied function fn returns for arguments (a, v)
PyCall(fn, a, v) == [t |-> "result", fn |-> fn, a |-> a, v |-> v]

\* the outcome of a call: a value or a raised exception
Ok(v) == [ok |-> TRUE, v |-> v]
Raise(e) == [ok |-> FALSE, exc |-> e]

(***************************************************************************)
(* Text helpers.                                                           *)
(***************************************************************************)
IsDigit(c) == c \in 48..57
IsDigits(b) == Len(b) > 0 /\ \A i \in 1..Len(b) : IsDigit(b[i])

RECURSIVE DigitsVal(_)
DigitsVal(b) ==
    IF Len(b) = 0 THEN 0
    ELSE DigitsVal(SubSeq(b, 1, Len(b) - 1)) * 10 + (b[Len(b)] - 48)

RECURSIVE NatStr(_)
NatStr(n) == IF n < 10 THEN <<48 + n>> ELSE NatStr(n \div 10) \o <<48 + (n % 10)>>

\* n written with exactly w digits, zero padded
RECURSIVE Pad(_, _)
Pad(n, w) == IF w = 0 THEN <<>> ELSE Pad(n \div 10, w - 1) \o <<48 + (n % 10)>>

Abs(n) == IF n < 0 THEN -n ELSE n

\* the sign prefix of a number literal, and the literal without it
SignOf(b) == IF Len(b) > 0 /\ b[1] = 45 THEN -1 ELSE 1
Unsigned(b) == IF Len(b) > 0 /\ b[1] \in {43, 45} THEN Tail(b) ELSE b

\* position of the first occurrence of c in s, 0 when absent
FirstIndex(s, c) ==
    IF \E i \in 1..Len(s) : s[i] = c
    THEN CHOOSE i \in 1..Len(s) : s[i] = c /\ \A j \in 1..(i - 1) : s[j] # c
    ELSE 0

(***************************************************************************)
(* int(v) and str(n).encode()                                              *)
(***************************************************************************)
IntStr(n) == IF n < 0 THEN <<45>> \o NatStr(-n) ELSE NatStr(n)

\* int() of a text literal: an optional sign and decimal digits
ParseInt(b) ==
    IF IsDigits(Unsigned(b))
    THEN Ok(PyInt(SignOf(b) * DigitsVal(Unsigned(b))))
    ELSE Raise("ValueError")

(***************************************************************************)
(* float(v) and str(x).encode()                                            *)
(***************************************************************************)
S_inf == <<105, 110, 102>>
S_nan == <<110, 97, 110>>

\* repr of a float: shortest text that parses back, at least one digit
\* after the point
FloatStr(x) ==
    IF x.k = "nan" THEN S_nan
    ELSE IF x.k = "inf" THEN (IF x.h < 0 THEN <<45>> ELSE <<>>) \o S_inf
    ELSE LET a == Abs(x.h)
             frac == IF a % 10 = 0 THEN <<48 + ((a % 100) \div 10)>>
                     ELSE <<48 + ((a % 100) \div 10), 48 + (a % 10)>>
         IN  (IF x.h < 0 THEN <<45>> ELSE <<>>) \o NatStr(a \div 100) \o <<46>> \o frac

\* float() of a text literal: inf, nan, or digits with an optional fraction
\* (fractions longer than two digits lie outside the modelled floats)
ParseFloat(b) ==
    LET u == Unsigned(b)
        dot == FirstIndex(u, 46)
        ip == IF dot = 0 THEN u ELSE SubSeq(u, 1, dot - 1)
        fp == IF dot = 0 THEN <<>> ELSE SubSeq(u, dot + 1, Len(u))
        fv == IF Len(fp) = 0 THEN 0
              ELSE IF Len(fp) = 1 THEN 10 * DigitsVal(fp) ELSE DigitsVal(fp)
    IN  IF u = S_inf THEN Ok(PyFloat("inf", SignOf(b)))
        ELSE IF u = S_nan THEN Ok(PyFloat("nan", 0))
        ELSE IF /\ Len(ip) + Len(fp) > 0
                /\ Len(fp) <= 2
                /\ \A i \in 1..Len(ip) : IsDigit(ip[i])
                /\ \A i \in 1..Len(fp) : IsDigit(fp[i])
        THEN Ok(PyFloat("fin", SignOf(b) * (100 * DigitsVal(ip) + fv)))
        ELSE Raise("ValueError")

(***************************************************************************)
(* str.encode / bytes.decode for utf-8 and ascii                           *)
(***************************************************************************)
IsSurrogate(c) == c \in 55296..57343

\* the UTF-8 bytes of one code point below 65536
Utf8Char(c) ==
    IF c < 128 THEN <<c>>
    ELSE IF c < 2048 THEN <<192 + (c \div 64), 128 + (c % 64)>>
    ELSE <<224 + (c \div 4096), 128 + ((c \div 64) % 64), 128 + (c % 64)>>

RECURSIVE Utf8Bytes(_)
Utf8Bytes(s) == IF Len(s) = 0 THEN <<>> ELSE Utf8Char(Head(s)) \o Utf8Bytes(Tail(s))

Utf8Encode(s) ==
    IF \E i \in 1..Len(s) : IsSurrogate(s[i])
    THEN Raise("UnicodeEncodeError")
    ELSE Ok(PyBytes(Utf8Bytes(s)))

IsCont(b, i) == i <= Len(b) /\ b[i] \in 128..191

\* number of bytes of the well-formed sequence starting b, 0 when malformed
Utf8Width(b) ==
    IF b[1] < 128 THEN 1
    ELSE IF b[1] \in 194..223 /\ IsCont(b, 2) THEN 2
    ELSE IF /\ b[1] \in 224..239 /\ IsCont(b, 2) /\ IsCont(b, 3)
            /\ (b[1] = 224 => b[2] >= 160)
            /\ (b[1] = 237 => b[2] < 160)
    THEN 3
    ELSE 0

Utf8Point(b, w) ==
    IF w = 1 THEN b[1]
    ELSE IF w = 2 THEN (b[1] - 192) * 64 + (b[2] - 128)
    ELSE (b[1] - 224) * 4096 + (b[2] - 128) * 64 + (b[3] - 128)

RECURSIVE Utf8WellFormed(_)
Utf8WellFormed(b) ==
    \/ Len(b) = 0
    \/ /\ Utf8Width(b) > 0
       /\ Utf8WellFormed(SubSeq(b, Utf8Width(b) + 1, Len(b)))

RECURSIVE Utf8Points(_)
Utf8Points(b) ==
    IF Len(b) = 0 THEN <<>>
    ELSE <<Utf8Point(b, Utf8Width(b))>> \o Utf8Points(SubSeq(b, Utf8Width(b) + 1, Len(b)))

Utf8Decode(b) ==
    IF Utf8WellFormed(b) THEN Ok(PyStr(Utf8Points(b))) ELSE Raise("UnicodeDecodeError")

AsciiEncode(s) ==
    IF \A i \in 1..Len(s) : s[i] < 128 THEN Ok(PyBytes(s)) ELSE Raise("UnicodeEncodeError")

AsciiDecode(b) ==
    IF \A i \in 1..Len(b) : b[i] < 128 THEN Ok(PyStr(b)) ELSE Raise("UnicodeDecodeError")

(***************************************************************************)
(* datetime.isoformat() and datetime.fromisoformat()                       *)
(***************************************************************************)
TzStr(tz) ==
    IF Len(tz) = 0 THEN <<>>
    ELSE <<IF tz[1] < 0 THEN 45 ELSE 43>>
         \o Pad(Abs(tz[1]) \div 60, 2) \o <<58>> \o Pad(Abs(tz[1]) % 60, 2)

\* a slip: the microseconds are never written
IsoFormat_NoMicroseconds(x) ==
    Pad(x.y, 4) \o <<45>> \o Pad(x.mo, 2) \o <<45>> \o Pad(x.d, 2) \o <<84>>
    \o Pad(x.h, 2) \o <<58>> \o Pad(x.mi, 2) \o <<58>> \o Pad(x.s, 2)
    \o TzStr(x.tz)

\* YYYY-MM-DDTHH:MM:SS, then .ffffff when the microseconds are not zero,
\* then +HH:MM when the value carries an offset
IsoFormat(x) ==
    Pad(x.y, 4) \o <<45>> \o Pad(x.mo, 2) \o <<45>> \o Pad(x.d, 2) \o <<84>>
    \o Pad(x.h, 2) \o <<58>> \o Pad(x.mi, 2) \o <<58>> \o Pad(x.s, 2)
    \o (IF x.us = 0 THEN <<>> ELSE <<46>> \o Pad(x.us, 6))
    \o TzStr(x.tz)

Field(s, i, j) == DigitsVal(SubSeq(s, i, j))
AllDigits(s, i, j) == j <= Len(s) /\ \A n \in i..j : IsDigit(s[n])

\* the number of fraction digits (with the point) at the head of s
FracWidth(s) ==
    IF Len(s) = 0 \/ s[1] # 46 THEN 0
    ELSE IF AllDigits(s, 2, 7) THEN 7
    ELSE IF AllDigits(s, 2, 4) THEN 4
    ELSE 1

IsDate(s) ==
    /\ Len(s) >= 10
    /\ AllDigits(s, 1, 4) /\ s[5] = 45 /\ AllDigits(s, 6, 7) /\ s[8] = 45
    /\ AllDigits(s, 9, 10)
    /\ Field(s, 1, 4) >= 1 /\ Field(s, 6, 7) \in 1..12 /\ Field(s, 9, 10) \in 1..31

IsClock(s) ==
    /\ Len(s) >= 8
    /\ AllDigits(s, 1, 2) /\ s[3] = 58 /\ AllDigits(s, 4, 5) /\ s[6] = 58
    /\ AllDigits(s, 7, 8)
    /\ Field(s, 1, 2) < 24 /\ Field(s, 4, 5) < 60 /\ Field(s, 7, 8) < 60

IsTz(s) ==
    \/ Len(s) = 0
    \/ /\ Len(s) = 6 /\ s[1] \in {43, 45}
       /\ AllDigits(s, 2, 3) /\ s[4] = 58 /\ AllDigits(s, 5, 6)
       /\ Field(s, 2, 3) < 24 /\ Field(s, 5, 6) < 60

TzVal(s) ==
    IF Len(s) = 0 THEN <<>>
    ELSE <<(IF s[1] = 45 THEN -1 ELSE 1) * (60 * Field(s, 2, 3) + Field(s, 5, 6))>>

\* a date, or a date, a separator and HH:MM:SS with an optional fraction of
\* three or six digits and an optional offset (the forms isoformat() writes)
FromIsoFormat(s) ==
    IF ~IsDate(s) THEN Raise("ValueError")
    ELSE IF Len(s) = 10
    THEN Ok(PyDatetime(Field(s, 1, 4), Field(s, 6, 7), Field(s, 9, 10), 0, 0, 0, 0, <<>>))
    ELSE LET clock == SubSeq(s, 12, Len(s))
             after == SubSeq(s, 20, Len(s))
             fw == FracWidth(after)
             us == IF fw = 7 THEN Field(after, 2, 7)
                   ELSE IF fw = 4 THEN 1000 * Field(after, 2, 4) ELSE 0
             tz == SubSeq(after, fw + 1, Len(after))
         IN  IF IsClock(clock) /\ fw # 1 /\ IsTz(tz)
             THEN Ok(PyDatetime(Field(s, 1, 4), Field(s, 6, 7), Field(s, 9, 10),
                                Field(clock, 1, 2), Field(clock, 4, 5),
                                Field(clock, 7, 8), us, TzVal(tz)))
             ELSE Raise("ValueError")

(***************************************************************************)
(* Python's ==, as far as the values of the model go: a NaN equals         *)
(* nothing, an int equals the float of the same value, and tuples compare  *)
(* by their members.                                                       *)
(***************************************************************************)
IsNaN(v) == v.t = "float" /\ v.k = "nan"

RECURSIVE PyEq(_, _)
PyEq(a, b) ==
    IF a.t = "tuple" /\ b.t = "tuple" THEN a.a = b.a /\ PyEq(a.v, b.v)
    ELSE IF IsNaN(a) \/ IsNaN(b) THEN FALSE
    ELSE IF a.t = "int" /\ b.t = "float" THEN b.k = "fin" /\ b.h = 100 * a.n
    ELSE IF a.t = "float" /\ b.t = "int" THEN a.k = "fin" /\ a.h = 100 * b.n
    ELSE a = b

(***************************************************************************)
(* Annotations, the built-in tables and the line records.                  *)
(***************************************************************************)
\* the annotation separator '!'
Bang == 33

S_Int == <<73, 110, 116>>
S_I == <<73>>
S_Float == <<70, 108, 111, 97, 116>>
S_F == <<70>>
S_Unicode == <<85, 110, 105, 99, 111, 100, 101>>
S_U == <<85>>
S_ASCII == <<65, 83, 67, 73, 73>>
S_A == <<65>>
S_Time == <<84, 105, 109, 101>>
S_T == <<84>>
\* an annotation no built-in table knows
S_Q == <<81>>
S_x == <<120>>

\* a table entry: a tuple of synonymous annotations and a converter
Entry(names, fn) == [names |-> names, fn |-> fn]
\* a table argument: None, or an insertion-ordered dict
NoTable == [none |-> TRUE, items |-> <<>>]
Table(items) == [none |-> FALSE, items |-> items]

DECODERS ==
    Table(<< Entry(<<S_Int, S_I>>, "int"),
             Entry(<<S_Float, S_F>>, "float"),
             Entry(<<S_Unicode, S_U>>, "utf-8"),
             Entry(<<S_ASCII, S_A>>, "ascii"),
             Entry(<<S_Time, S_T>>, "isoformat") >>)

\* the converters of DECODERS, applied to raw bytes
ApplyDecoder(fn, raw) ==
    CASE fn = "int" -> ParseInt(raw.b)
      [] fn = "float" -> ParseFloat(raw.b)
      [] fn = "utf-8" -> Utf8Decode(raw.b)
      [] fn = "ascii" -> AsciiDecode(raw.b)
      [] fn = "isoformat" ->
            IF Utf8Decode(raw.b).ok THEN FromIsoFormat(Utf8Decode(raw.b).v.s)
            ELSE Utf8Decode(raw.b)

\* the three shapes of a line record
Pending == PyNone
Newline == [t |-> "newline"]
KeyValue(key, value) == [t |-> "kv", key |-> key, value |-> value]

\* annotation in annotations
InNames(annotation, names) == \E i \in 1..Len(names) : names[i] = annotation

\* the first entry of the table whose synonyms hold the annotation, 0 if none
FirstMatch(items, annotation) ==
    IF \E i \in 1..Len(items) : InNames(annotation, items[i].names)
    THEN CHOOSE i \in 1..Len(items) :
            /\ InNames(annotation, items[i].names)
            /\ \A j \in 1..(i - 1) : ~InNames(annotation, items[j].names)
    ELSE 0

\* '!' in key
HasBang(key) == \E i \in 1..Len(key) : key[i] = Bang

\* a slip: the key is split at its last '!'
SplitKey_Last(key) ==
    LET i == CHOOSE n \in 1..Len(key) :
                 key[n] = Bang /\ \A m \in (n + 1)..Len(key) : key[m] # Bang
    IN  <<SubSeq(key, 1, i - 1), SubSeq(key, i + 1, Len(key))>>

\* key.split('!', maxsplit=1)
SplitKey(key) ==
    << SubSeq(key, 1, FirstIndex(key, Bang) - 1),
       SubSeq(key, FirstIndex(key, Bang) + 1, Len(key)) >>

\* the fallbacks a caller may pass as default
RaiseDecodingError == "raise_decoding_error"
NullDefault == "None"
CustomDefault == "custom"

\* raise_decoding_error(annotation, value)
raise_decoding_error(annotation, value) == Raise("DecodingError")

\* a slip: every fallback treated as the null one
CallDefault_AlwaysTuple(default, annotation, value) == Ok(PyTuple(annotation, value))

\* default(annotation, value) for a default that is not None
CallDefault(default, annotation, value) ==
    IF default = RaiseDecodingError THEN raise_decoding_error(annotation, value)
    ELSE Ok(PyCall("default", annotation, value))

\* the default decode_block hands to each decode_line call
BlockLineDefault(default) == RaiseDecodingError

(***************************************************************************)
(* The inputs of the decode side.                                          *)
(***************************************************************************)
Lines ==
    { Pending, Newline,
      KeyValue(S_x, PyBytes(<<49>>)),
      KeyValue(<<>>, PyBytes(<<>>)),
      KeyValue(S_x \o <<Bang>> \o S_I, PyBytes(<<52, 50>>)),
      KeyValue(S_x \o <<Bang>> \o S_Int, PyBytes(<<52, 50>>)),
      KeyValue(S_x \o <<Bang>> \o S_Int, PyBytes(<<122>>)),
      KeyValue(S_x \o <<Bang>> \o S_Q, PyBytes(<<122>>)),
      KeyValue(S_x \o <<Bang>>, PyBytes(<<49>>)),
      KeyValue(<<Bang>> \o S_I \o <<Bang>> \o S_F, PyBytes(<<49>>)) }

Streams == UNION { [1..n -> Lines] : n \in 0..MaxStream }

\* a caller's table in which 'I' stands in two synonym sets, the first of
\* them also holding an annotation with a '!' in it
OverlappingDecoders ==
    Table(<< Entry(<<S_I, S_I \o <<Bang>> \o S_F>>, "utf-8"),
             Entry(<<S_Int, S_I>>, "int") >>)

DecoderTables == { NoTable, Table(<<>>), DECODERS, OverlappingDecoders }
Defaults == { RaiseDecodingError, NullDefault, CustomDefault }

(***************************************************************************)
(* The encode side: ENCODERS, TYPES, ensure_encoded and encode_line.       *)
(***************************************************************************)
\* None where an annotation is expected
NoAnnotation == <<-1>>

ENCODERS ==
    Table(<< Entry(<<S_Int, S_I>>, "int"),
             Entry(<<S_Float, S_F>>, "float"),
             Entry(<<S_Unicode, S_U>>, "utf-8"),
             Entry(<<S_ASCII, S_A>>, "ascii"),
             Entry(<<S_Time, S_T>>, "isoformat") >>)

\* a type-table entry: a type and its annotation
TypeEntry(type, a) == [type |-> type, a |-> a]

TYPES ==
    Table(<< TypeEntry("int", S_I),
             TypeEntry("float", S_F),
             TypeEntry("str", S_U),
             TypeEntry("datetime", S_T) >>)

\* isinstance(value, type)
IsInstance(value, type) == value.t = type \/ type = "object"

\* int(v)
ToInt(v) ==
    CASE v.t = "int" -> Ok(v)
      [] v.t = "float" ->
            IF v.k = "nan" THEN Raise("ValueError")
            ELSE IF v.k = "inf" THEN Raise("OverflowError")
            ELSE Ok(PyInt((IF v.h < 0 THEN -1 ELSE 1) * (Abs(v.h) \div 100)))
      [] v.t = "str" -> ParseInt(v.s)
      [] v.t = "bytes" -> ParseInt(v.b)
      [] OTHER -> Raise("TypeError")

\* float(v)
ToFloat(v) ==
    CASE v.t = "int" -> Ok(PyFloat("fin", 100 * v.n))
      [] v.t = "float" -> Ok(v)
      [] v.t = "str" -> ParseFloat(v.s)
      [] v.t = "bytes" -> ParseFloat(v.b)
      [] OTHER -> Raise("TypeError")

\* the converters of ENCODERS, and of a caller's table whose converter
\* "same" returns its argument, applied to a value
ApplyEncoder(fn, v) ==
    CASE fn = "int" ->
            IF ToInt(v).ok THEN Ok(PyBytes(IntStr(ToInt(v).v.n))) ELSE ToInt(v)
      [] fn = "float" ->
            IF ToFloat(v).ok THEN Ok(PyBytes(FloatStr(ToFloat(v).v))) ELSE ToFloat(v)
      [] fn = "utf-8" ->
            IF v.t = "str" THEN Utf8Encode(v.s) ELSE Raise("AttributeError")
      [] fn = "ascii" ->
            IF v.t = "str" THEN AsciiEncode(v.s) ELSE Raise("AttributeError")
      [] fn = "isoformat" ->
            IF v.t = "datetime" THEN Ok(PyBytes(IsoFormat(v)))
            ELSE Raise("AttributeError")
      [] fn = "same" -> Ok(v)

\* a slip: every value is let through
ensure_encoded_Lenient(a, value) == Ok(value)

\* ensure_encoded(annotation, value)
ensure_encoded(a, value) ==
    IF value.t # "bytes" THEN Raise("EncodingError") ELSE Ok(value)

\* the handlers a caller may pass as default: ensure_encoded, a function
\* that returns bytes whatever it is given, a function that returns its
\* value argument unchanged
EnsureEncoded == "ensure_encoded"
CustomBytes == "custom_bytes"
CustomSame == "custom_same"

\* default(annotation, value)
CallEncDefault(h, a, value) ==
    CASE h = EnsureEncoded -> ensure_encoded(a, value)
      [] h = CustomBytes -> Ok(PyBytes(<<63>>))
      [] h = CustomSame -> Ok(value)

\* a slip: the loop over the types has no break, the last match stays
InferAnnotation_Last(titems, value) ==
    IF \E i \in 1..Len(titems) : IsInstance(value, titems[i].type)
    THEN titems[CHOOSE i \in 1..Len(titems) :
                    /\ IsInstance(value, titems[i].type)
                    /\ \A j \in (i + 1)..Len(titems) :
                          ~IsInstance(value, titems[j].type)].a
    ELSE NoAnnotation

\* for t, a in types.items(): if isinstance(value, t): annotation = a; break
InferAnnotation(titems, value) ==
    IF \E i \in 1..Len(titems) : IsInstance(value, titems[i].type)
    THEN titems[CHOOSE i \in 1..Len(titems) :
                    /\ IsInstance(value, titems[i].type)
                    /\ \A j \in 1..(i - 1) : ~IsInstance(value, titems[j].type)].a
    ELSE NoAnnotation

\* a slip: the type of the value decides whenever the table knows it
ChooseAnnotation_TypeFirst(given, titems, value) ==
    IF InferAnnotation(titems, value) # NoAnnotation
    THEN InferAnnotation(titems, value)
    ELSE given

\* if annotation is None: the annotation the types give, else the one given
ChooseAnnotation(given, titems, value) ==
    IF given = NoAnnotation THEN InferAnnotation(titems, value) ELSE given

\* a slip: the key is returned as it came
Suffixed_Bare(k, a) == k

\* f'{key}!{annotation}'
Suffixed(k, a) == k \o <<Bang>> \o a

encode_line(key_and_value, encs, h, typs) ==
    IF key_and_value \in {Pending, Newline} THEN Ok(key_and_value)
    ELSE LET eitems == IF encs.none THEN <<>> ELSE encs.items
             titems == IF typs.none THEN <<>> ELSE typs.items
             k == key_and_value.key
             spec == key_and_value.value
             given == IF spec.t = "tuple" THEN spec.a ELSE NoAnnotation
             value == IF spec.t = "tuple" THEN spec.v ELSE spec
             a == ChooseAnnotation(given, titems, value)
             m == FirstMatch(eitems, a)
             converted == IF m = 0 THEN Ok(value) ELSE ApplyEncoder(eitems[m].fn, value)
             handled == IF converted.ok THEN CallEncDefault(h, a, converted.v)
                        ELSE converted
             checked == IF handled.ok THEN ensure_encoded(a, handled.v) ELSE handled
         IN  IF ~checked.ok THEN checked
             ELSE Ok(KeyValue(IF a # NoAnnotation THEN Suffixed(k, a) ELSE k,
                              handled.v))

(***************************************************************************)
(* The inputs of the encode side.                                          *)
(***************************************************************************)
\* the str 'pi', the str of the one letter pi, one holding the separator
S_pi == <<112, 105>>
S_greek == <<960>>

Ints == { PyInt(n) : n \in -MaxInt..MaxInt }
Floats ==
    { PyFloat("fin", 0), PyFloat("fin", 100), PyFloat("fin", 314),
      PyFloat("fin", -250), PyFloat("inf", 1), PyFloat("inf", -1),
      PyFloat("nan", 0) }
Strs == { PyStr(<<>>), PyStr(S_pi), PyStr(S_greek), PyStr(<<49>>) }
Datetimes ==
    { PyDatetime(1234, 1, 2, 0, 0, 0, 0, <<>>),
      PyDatetime(1234, 1, 2, 4, 5, 6, 789000, <<-300>>),
      PyDatetime(2024, 12, 31, 23, 59, 59, 5, <<0>>),
      PyDatetime(2024, 2, 29, 12, 0, 0, 0, <<330>>) }
BytesValues == { PyBytes(<<>>), PyBytes(<<100, 97, 116, 97>>), PyBytes(<<55>>) }
\* a value of a type no built-in table knows
Others == { [t |-> "complex"] }

Values == Ints \cup Floats \cup Strs \cup Datetimes \cup BytesValues \cup Others

Annotations ==
    { S_Int, S_I, S_Float, S_F, S_Unicode, S_U, S_ASCII, S_A, S_Time, S_T, S_Q,
      S_I \o <<Bang>> \o S_F }

ValueSpecs == Values \cup { PyTuple(a, v) : a \in Annotations \cup {NoAnnotation}, v \in Values }

EncKeys == { S_x, <<>>, S_x \o <<Bang>> \o S_x }

EncInputs == { Pending, Newline } \cup { KeyValue(k, v) : k \in EncKeys, v \in ValueSpecs }

EncoderTables == { NoTable, Table(<<>>), ENCODERS, Table(<<Entry(<<S_Q>>, "same")>>) }
EncDefaults == { EnsureEncoded, CustomBytes, CustomSame }
\* a caller's table whose first entry matches every value
ObjectFirstTypes == Table(<< TypeEntry("object", S_Q), TypeEntry("int", S_I) >>)

TypeTables == { NoTable, TYPES, ObjectFirstTypes }

\* the records encode_block is given: the two sentinels, records that
\* encode, one that no table converts, one whose converter raises
BlockInputs ==
    { Pending, Newline,
      KeyValue(S_x, PyInt(1)),
      KeyValue(S_x, PyBytes(<<100, 97, 116, 97>>)),
      KeyValue(S_x, [t |-> "complex"]),
      KeyValue(S_x, PyTuple(S_I, PyStr(S_pi))) }

LineSeqs == UNION { [1..n -> BlockInputs] : n \in 0..MaxLines }

\* encode_line has not been called yet
NotRun == Raise("not run")

(***************************************************************************)
(* State.                                                                  *)
(***************************************************************************)
VARIABLES
    mode,           \* what the caller runs: decode_line ("line"), decode_block
                    \* ("block"), encode_line ("encode"), encode_line and
                    \* decode_line on its result ("roundtrip"), or
                    \* encode_block ("encode_block")
    stream,         \* the elements the stream iterator yields
    pos,            \* how many of them have been taken
    decoders,       \* the decoders argument
    default,        \* the default argument
    out,            \* what the driven generator has yielded so far
    outcome,        \* "running", "returned", or the exception it raised
    dl_pc,          \* the running decode_line: "for", "return" or "dead"
    dl_default,     \* the default of the running decode_line call
    calls,          \* how many decode_line calls have been started
    fallback_calls, \* how many times a default was called
    enc_input,      \* the key_and_value argument of encode_line
    encoders,       \* its encoders argument
    enc_default,    \* its default argument
    types,          \* its types argument
    enc_result,     \* what encode_line returned or raised
    call_start,     \* pos when the running decode_line call began
    lines,          \* the lines argument of encode_block
    enc_pos,        \* how many of them encode_block has taken
    enc_out         \* what encode_block has yielded so far

vars == <<mode, stream, pos, decoders, default, out, outcome, dl_pc,
          dl_default, calls, fallback_calls, enc_input, encoders,
          enc_default, types, enc_result, call_start, lines, enc_pos, enc_out>>

\* the arguments, the stream the caller built and what was encoded
config == <<mode, stream, decoders, default, enc_input, encoders,
            enc_default, types, enc_result, lines, enc_pos, enc_out>>

\* the caller runs decode_line or decode_block on a stream
InitDecode ==
    /\ mode \in {"line", "block"}
    /\ stream \in Streams
    /\ decoders \in DecoderTables
    /\ default \in Defaults
    /\ dl_pc = "for"
    /\ dl_default = IF mode = "line" THEN default ELSE BlockLineDefault(default)
    /\ calls = 1
    /\ enc_input = Pending
    /\ encoders = ENCODERS
    /\ enc_default = EnsureEncoded
    /\ types = TYPES
    /\ lines = <<>>

\* no decode_line runs yet
NoDecode ==
    /\ stream = <<>>
    /\ decoders = DECODERS
    /\ default = RaiseDecodingError
    /\ dl_pc = "idle"
    /\ dl_default = default
    /\ calls = 0

\* the caller runs encode_line
InitEncode ==
    /\ mode = "encode"
    /\ NoDecode
    /\ enc_input \in EncInputs
    /\ encoders \in EncoderTables
    /\ enc_default \in EncDefaults
    /\ types \in TypeTables
    /\ lines = <<>>

\* the caller runs encode_line with its default arguments and decodes
\* what it returns
InitRoundTrip ==
    /\ mode = "roundtrip"
    /\ NoDecode
    /\ enc_input \in EncInputs
    /\ encoders = ENCODERS
    /\ enc_default = EnsureEncoded
    /\ types = TYPES
    /\ lines = <<>>

\* the caller runs encode_block on a sequence of records
InitEncodeBlock ==
    /\ mode = "encode_block"
    /\ NoDecode
    /\ enc_input = Pending
    /\ encoders \in EncoderTables
    /\ enc_default \in EncDefaults
    /\ types \in TypeTables
    /\ lines \in LineSeqs

Init ==
    /\ InitDecode \/ InitEncode \/ InitRoundTrip \/ InitEncodeBlock
    /\ pos = 0
    /\ out = <<>>
    /\ outcome = "running"
    /\ fallback_calls = 0
    /\ enc_result = NotRun
    /\ call_start = 0
    /\ enc_pos = 0
    /\ enc_out = <<>>

(***************************************************************************)
(* decode_line, one resumption at a time.                                  *)
(***************************************************************************)
\* the caller drives a decode_line generator itself
LineDriven == mode \in {"line", "roundtrip"}
\* the for statement has a next element
Fetching == outcome = "running" /\ dl_pc = "for" /\ pos < Len(stream)
line == stream[pos + 1]
IsKV == line.t = "kv"
Annotated == IsKV /\ HasBang(line.key)
key == SplitKey(line.key)[1]
annotation == SplitKey(line.key)[2]
Scanned == Annotated /\ ~decoders.none
Match == FirstMatch(decoders.items, annotation)

\* a slip: the return after the yield is missing, the loop goes on
YieldResult_NoReturn(r) ==
    /\ out' = Append(out, r)
    /\ dl_pc' = "for"
    /\ UNCHANGED outcome

\* yield the single result of the call; the call returns when resumed
YieldResult(r) ==
    /\ out' = Append(out, r)
    /\ dl_pc' = "return"
    /\ UNCHANGED outcome

\* a slip: every exception is treated as the end of the stream is
Propagate_Swallowed(exc) ==
    /\ outcome' = "returned"
    /\ dl_pc' = "dead"
    /\ UNCHANGED out

\* an exception leaves decode_line and, not being EOFError, decode_block
Propagate(exc) ==
    /\ outcome' = exc
    /\ dl_pc' = "dead"
    /\ UNCHANGED out

\* a slip: a not-ready marker is skipped and not yielded
ForwardPending_Dropped ==
    /\ Fetching /\ line = Pending
    /\ pos' = pos + 1
    /\ UNCHANGED <<config, call_start, out, outcome, dl_pc, dl_default, calls, fallback_calls>>

\* if line is None: yield; continue
ForwardPending ==
    /\ Fetching /\ line = Pending
    /\ pos' = pos + 1
    /\ out' = Append(out, Pending)
    /\ UNCHANGED <<config, call_start, outcome, dl_pc, dl_default, calls, fallback_calls>>

\* if line == '\n': yield line; return
YieldNewline ==
    /\ Fetching /\ line = Newline
    /\ pos' = pos + 1
    /\ YieldResult(Newline)
    /\ UNCHANGED <<config, call_start, dl_default, calls, fallback_calls>>

\* a slip: the value of an unannotated record is wrapped like an annotated one
YieldUnannotated_Wrapped ==
    /\ Fetching /\ IsKV /\ ~HasBang(line.key)
    /\ pos' = pos + 1
    /\ YieldResult(KeyValue(line.key, PyTuple(<<>>, line.value)))
    /\ UNCHANGED <<config, call_start, dl_default, calls, fallback_calls>>

\* if '!' not in key: yield key, value; return
YieldUnannotated ==
    /\ Fetching /\ IsKV /\ ~HasBang(line.key)
    /\ pos' = pos + 1
    /\ YieldResult(KeyValue(line.key, line.value))
    /\ UNCHANGED <<config, call_start, dl_default, calls, fallback_calls>>

\* a slip: the fallback is looked at before the disabled table
YieldDisabled_AfterFallback ==
    /\ Fetching /\ Annotated /\ decoders.none
    /\ pos' = pos + 1
    /\ IF dl_default = RaiseDecodingError THEN Propagate("DecodingError")
       ELSE YieldResult(KeyValue(key, PyTuple(annotation, line.value)))
    /\ UNCHANGED <<config, call_start, dl_default, calls, fallback_calls>>

\* if decoders is None: yield key, (annotation, value); return
YieldDisabled ==
    /\ Fetching /\ Annotated /\ decoders.none
    /\ pos' = pos + 1
    /\ YieldResult(KeyValue(key, PyTuple(annotation, line.value)))
    /\ UNCHANGED <<config, call_start, dl_default, calls, fallback_calls>>

\* if annotation in annotations: yield key, decode(value); return
YieldDecoded ==
    /\ Fetching /\ Scanned /\ Match # 0
    /\ pos' = pos + 1
    /\ LET r == ApplyDecoder(decoders.items[Match].fn, line.value)
       IN  IF r.ok THEN YieldResult(KeyValue(key, r.v)) ELSE Propagate(r.exc)
    /\ UNCHANGED <<config, call_start, dl_default, calls, fallback_calls>>

\* if default is not None: yield key, default(annotation, value); return
YieldDefault ==
    /\ Fetching /\ Scanned /\ Match = 0 /\ dl_default # NullDefault
    /\ pos' = pos + 1
    /\ fallback_calls' = fallback_calls + 1
    /\ LET r == CallDefault(dl_default, annotation, line.value)
       IN  IF r.ok THEN YieldResult(KeyValue(key, r.v)) ELSE Propagate(r.exc)
    /\ UNCHANGED <<config, call_start, dl_default, calls>>

\* yield key, (annotation, value); return
YieldTuple ==
    /\ Fetching /\ Scanned /\ Match = 0 /\ dl_default = NullDefault
    /\ pos' = pos + 1
    /\ YieldResult(KeyValue(key, PyTuple(annotation, line.value)))
    /\ UNCHANGED <<config, call_start, dl_default, calls, fallback_calls>>

\* the return after the final yield, in a decode_line the caller drives
LineReturn ==
    /\ outcome = "running" /\ dl_pc = "return" /\ LineDriven
    /\ outcome' = "returned"
    /\ dl_pc' = "dead"
    /\ UNCHANGED <<config, call_start, pos, out, dl_default, calls, fallback_calls>>

\* a slip: the exhausted stream ends decode_line without an error
LineEOF_Returns ==
    /\ outcome = "running" /\ dl_pc = "for" /\ pos = Len(stream) /\ LineDriven
    /\ outcome' = "returned"
    /\ dl_pc' = "dead"
    /\ UNCHANGED <<config, call_start, pos, out, dl_default, calls, fallback_calls>>

\* raise EOFError, in a decode_line the caller drives
LineEOF ==
    /\ outcome = "running" /\ dl_pc = "for" /\ pos = Len(stream) /\ LineDriven
    /\ outcome' = "EOFError"
    /\ dl_pc' = "dead"
    /\ UNCHANGED <<config, call_start, pos, out, dl_default, calls, fallback_calls>>

(***************************************************************************)
(* decode_block                                                            *)
(***************************************************************************)
\* the inner decode_line returned: while True starts the next call
BlockNextCall ==
    /\ outcome = "running" /\ dl_pc = "return" /\ mode = "block"
    /\ dl_pc' = "for"
    /\ dl_default' = BlockLineDefault(default)
    /\ calls' = calls + 1
    /\ call_start' = pos
    /\ UNCHANGED <<config, pos, out, outcome, fallback_calls>>

\* a slip: the EOFError of the inner decode_line is not caught
BlockEOF_Raises ==
    /\ outcome = "running" /\ dl_pc = "for" /\ pos = Len(stream) /\ mode = "block"
    /\ outcome' = "EOFError"
    /\ dl_pc' = "dead"
    /\ UNCHANGED <<config, call_start, pos, out, dl_default, calls, fallback_calls>>

\* the inner decode_line raises EOFError: except EOFError: pass
BlockEOF ==
    /\ outcome = "running" /\ dl_pc = "for" /\ pos = Len(stream) /\ mode = "block"
    /\ outcome' = "returned"
    /\ dl_pc' = "dead"
    /\ UNCHANGED <<config, call_start, pos, out, dl_default, calls, fallback_calls>>

(***************************************************************************)
(* encode_line, and the round trip through decode_line                     *)
(***************************************************************************)
\* encode_line(key_and_value, encoders, default, types)
EncodeLine ==
    /\ mode \in {"encode", "roundtrip"} /\ enc_result = NotRun
    /\ enc_result' = encode_line(enc_input, encoders, enc_default, types)
    /\ UNCHANGED <<mode, stream, decoders, default, enc_input, encoders,
                   enc_default, types, pos, out, outcome, dl_pc, dl_default,
                   calls, fallback_calls, call_start, lines, enc_pos, enc_out>>

\* decode_line([record]) on the record encode_line returned
DecodeEncoded ==
    /\ mode = "roundtrip" /\ enc_result.ok /\ dl_pc = "idle"
    /\ stream' = <<enc_result.v>>
    /\ dl_pc' = "for"
    /\ calls' = calls + 1
    /\ UNCHANGED <<mode, decoders, default, enc_input, encoders, enc_default,
                   types, enc_result, pos, out, outcome, dl_default,
                   fallback_calls, call_start, lines, enc_pos, enc_out>>

(***************************************************************************)
(* encode_block                                                            *)
(***************************************************************************)
\* what a step of encode_block leaves alone
encFrame == <<mode, stream, pos, decoders, default, out, dl_pc, dl_default,
              calls, fallback_calls, enc_input, encoders, enc_default, types,
              enc_result, call_start, lines>>

\* a slip: the loop ends with the first terminator it emits
EncodeBlockNext_StopsAtNewline ==
    /\ mode = "encode_block" /\ outcome = "running" /\ enc_pos < Len(lines)
    /\ enc_pos' = enc_pos + 1
    /\ LET r == encode_line(lines[enc_pos + 1], encoders, enc_default, types)
       IN  IF r.ok
           THEN /\ enc_out' = Append(enc_out, r.v)
                /\ outcome' = IF r.v = Newline THEN "returned" ELSE outcome
           ELSE outcome' = r.exc /\ UNCHANGED enc_out
    /\ UNCHANGED encFrame

\* for line in lines: yield encode_line(line, encoders, default, types);
\* an exception of encode_line leaves encode_block
EncodeBlockNext ==
    /\ mode = "encode_block" /\ outcome = "running" /\ enc_pos < Len(lines)
    /\ enc_pos' = enc_pos + 1
    /\ LET r == encode_line(lines[enc_pos + 1], encoders, enc_default, types)
       IN  IF r.ok THEN enc_out' = Append(enc_out, r.v) /\ UNCHANGED outcome
           ELSE outcome' = r.exc /\ UNCHANGED enc_out
    /\ UNCHANGED encFrame

\* the for loop ends with its input
EncodeBlockEnd ==
    /\ mode = "encode_block" /\ outcome = "running" /\ enc_pos = Len(lines)
    /\ outcome' = "returned"
    /\ UNCHANGED <<encFrame, enc_pos, enc_out>>

Next ==
    \/ ForwardPending
    \/ YieldNewline
    \/ YieldUnannotated
    \/ YieldDisabled
    \/ YieldDecoded
    \/ YieldDefault
    \/ YieldTuple
    \/ LineReturn
    \/ LineEOF
    \/ BlockNextCall
    \/ BlockEOF
    \/ EncodeLine
    \/ DecodeEncoded
    \/ EncodeBlockNext
    \/ EncodeBlockEnd

Spec == Init /\ [][Next]_vars

\* decode_block alone, driven by a caller that keeps asking the generator
\* for its next value until it ends
InitBlock == Init /\ mode = "block"

BlockNext ==
    \/ ForwardPending
    \/ YieldNewline
    \/ YieldUnannotated
    \/ YieldDisabled
    \/ YieldDecoded
    \/ YieldDefault
    \/ BlockNextCall
    \/ BlockEOF

FairSpec == InitBlock /\ [][BlockNext]_vars /\ WF_vars(BlockNext)

(***************************************************************************)
(* Vocabulary of the properties.                                           *)
(***************************************************************************)
Last(q) == q[Len(q)]

\* the ways to write k as p!a with no '!' in p: none or one
Splits(k) ==
    { <<SubSeq(k, 1, i - 1), SubSeq(k, i + 1, Len(k))>> :
        i \in { n \in 1..Len(k) : k[n] = Bang /\ \A j \in 1..(n - 1) : k[j] # Bang } }

\* some synonym set of the table holds a
Known(a, table) ==
    \E i \in 1..Len(table.items) :
        \E j \in 1..Len(table.items[i].names) : table.items[i].names[j] = a

\* a decode_line the caller drives has just handled the key/value record
\* stream[pos]
LineHandledKV == LineDriven /\ pos > 0 /\ stream[pos].t = "kv"
\* the decode_line call that decode_block runs has just handled stream[pos]
BlockHandledKV == mode = "block" /\ pos > 0 /\ stream[pos].t = "kv" /\ dl_pc # "for"

NoError == outcome \in {"running", "returned"}
OnlyPending(q) == \A i \in 1..Len(q) : q[i] = Pending

\* what the fallback policy d makes of the unrecognised annotation a of the
\* record stream[pos] with plain key p
FollowsFallback(d, p, a) ==
    /\ d = RaiseDecodingError => outcome = "DecodingError" /\ OnlyPending(out)
    /\ d = NullDefault =>
          /\ NoError /\ Len(out) > 0
          /\ Last(out) = KeyValue(p, PyTuple(a, stream[pos].value))
    /\ d = CustomDefault =>
          /\ NoError /\ Len(out) > 0
          /\ Last(out) = KeyValue(p, PyCall("default", a, stream[pos].value))

\* C1: decode_line on a record whose annotation is in no synonym set of an
\* enabled table raises DecodingError and emits no record under the raising
\* fallback, emits (key, (annotation, raw)) under the null fallback and
\* (key, f(annotation, raw)) under a custom fallback f.
C1_UnknownAnnotationFollowsFallback ==
    (mode = "line" /\ LineHandledKV /\ ~decoders.none) =>
        \A pa \in Splits(stream[pos].key) :
            ~Known(pa[2], decoders) => FollowsFallback(default, pa[1], pa[2])

C1_Witness ==
    /\ mode = "line" /\ LineHandledKV
    /\ decoders = Table(<<>>) /\ default = CustomDefault
    /\ stream[pos].key = S_x \o <<Bang>> \o S_Q
    /\ Last(out) = KeyValue(S_x, PyCall("default", S_Q, stream[pos].value))

\* C2: decode_block handles a record with an unrecognised annotation by the
\* fallback it was called with, as decode_line does.
C2_BlockFollowsItsFallback ==
    (BlockHandledKV /\ ~decoders.none) =>
        \A pa \in Splits(stream[pos].key) :
            ~Known(pa[2], decoders) => FollowsFallback(default, pa[1], pa[2])

\* C3: a terminator is the last element decode_block emits.
C3_TerminatorEndsBlock ==
    mode = "block" => \A i \in 1..Len(out) : out[i] = Newline => i = Len(out)

\* the number of not-ready markers before the first real record
LeadingPending(q) ==
    CHOOSE n \in 0..Len(q) :
        /\ \A i \in 1..n : q[i] = Pending
        /\ n < Len(q) => q[n + 1] # Pending

\* C4: decode_line emits one not-ready marker for each not-ready marker
\* that precedes the first real record, in order, then the single result
\* for that record, and nothing else.
C4_PendingForwardedInOrder ==
    mode = "line" =>
        /\ pos <= LeadingPending(stream) + 1
        /\ Len(out) <= pos
        /\ NoError => Len(out) = pos
        /\ \A i \in 1..Len(out) : (out[i] = Pending) <=> (i <= LeadingPending(stream))
        /\ outcome = "returned" => Len(out) = LeadingPending(stream) + 1

C4_Witness ==
    /\ mode = "line" /\ outcome = "returned"
    /\ LeadingPending(stream) = 2
    /\ out = <<Pending, Pending, stream[3]>>

\* C5: decode_line raises EOFError exactly when the stream ends without a
\* terminator or key/value record, after forwarding every not-ready marker.
C5_EOFOnlyWhenNoRecord ==
    mode = "line" =>
        /\ outcome = "EOFError" => OnlyPending(stream) /\ out = stream
        /\ (OnlyPending(stream) /\ outcome # "running") => outcome = "EOFError"
        /\ ~OnlyPending(stream) => outcome # "EOFError"

C5_Witness ==
    mode = "line" /\ outcome = "EOFError" /\ out = <<Pending, Pending>>

\* no record of the stream makes a decode_line call of decode_block raise
BlockDecodable ==
    \A i \in 1..Len(stream) :
        (stream[i].t = "kv" /\ ~decoders.none) =>
            \A pa \in Splits(stream[i].key) :
                /\ Known(pa[2], decoders)
                /\ ApplyDecoder(decoders.items[FirstMatch(decoders.items, pa[2])].fn,
                                stream[i].value).ok

\* one output per stream element, at its place
OneForOne ==
    /\ pos = Len(stream)
    /\ Len(out) = Len(stream)
    /\ \A i \in 1..Len(stream) :
          IF stream[i].t = "kv" THEN out[i].t = "kv" ELSE out[i] = stream[i]

\* C6: on a finite stream whose records all decode, decode_block ends its
\* sequence: the EOFError of the inner decode_line never reaches the
\* caller, every element has been emitted once, and nothing follows.
C6_BlockEndsCleanly ==
    /\ (mode = "block" /\ BlockDecodable) ~> (outcome = "returned" /\ OneForOne)
    /\ [](mode = "block" => outcome # "EOFError")
    /\ [][(mode = "block" /\ outcome = "returned") => out' = out]_vars

C6_Witness ==
    /\ mode = "block" /\ outcome = "returned" /\ BlockDecodable
    /\ Len(stream) >= 2 /\ stream[1].t = "kv" /\ stream[2].t = "kv"
    /\ OneForOne

\* C7: with decoders=None decode_line emits (key, (annotation, raw)) for
\* every annotated record under every fallback, raises no DecodingError and
\* never calls the fallback.
C7_DisabledTablePrecedesFallback ==
    (mode = "line" /\ LineHandledKV /\ decoders.none) =>
        /\ fallback_calls = 0
        /\ outcome # "DecodingError"
        /\ \A pa \in Splits(stream[pos].key) :
              /\ NoError /\ Len(out) > 0
              /\ Last(out) = KeyValue(pa[1], PyTuple(pa[2], stream[pos].value))

C7_Witness ==
    /\ mode = "line" /\ LineHandledKV /\ decoders.none
    /\ default = RaiseDecodingError
    /\ stream[pos].key = S_x \o <<Bang>> \o S_Q
    /\ Last(out) = KeyValue(S_x, PyTuple(S_Q, stream[pos].value))

(***************************************************************************)
(* Round trip and encode properties.                                       *)
(***************************************************************************)
\* encode_line has run on a key/value record
Encoded == enc_result # NotRun /\ enc_input.t = "kv"
\* the record encode_line returned has been decoded
DecodedBack == mode = "roundtrip" /\ pos = 1

\* the annotation given with the value, and the value without it
GivenAnnotation == IF enc_input.value.t = "tuple" THEN enc_input.value.a ELSE NoAnnotation
GivenValue == IF enc_input.value.t = "tuple" THEN enc_input.value.v ELSE enc_input.value

IsAscii(v) == \A i \in 1..Len(v.s) : v.s[i] < 128

\* the value is of the type of the built-in annotation a; with no
\* annotation given, of a type TYPES knows
OfBuiltinType(a, v) ==
    \/ a \in {S_Int, S_I} /\ v.t = "int"
    \/ a \in {S_Float, S_F} /\ v.t = "float"
    \/ a \in {S_Unicode, S_U} /\ v.t = "str"
    \/ a \in {S_ASCII, S_A} /\ v.t = "str" /\ IsAscii(v)
    \/ a \in {S_Time, S_T} /\ v.t = "datetime"
    \/ a = NoAnnotation /\ v.t \in {"int", "float", "str", "datetime"}

BuiltinTables ==
    /\ encoders = ENCODERS /\ types = TYPES /\ enc_default = EnsureEncoded
    /\ decoders = DECODERS

BuiltinRoundTrip ==
    /\ mode = "roundtrip" /\ BuiltinTables /\ enc_input.t = "kv"
    /\ ~HasBang(enc_input.key)
    /\ OfBuiltinType(GivenAnnotation, GivenValue)

\* decode_line gave back the key and a value equal to the one encoded
GaveBack ==
    /\ NoError /\ Len(out) = 1 /\ out[1].t = "kv"
    /\ out[1].key = enc_input.key
    /\ PyEq(out[1].value, GivenValue)

\* C8 as claimed: with the built-in tables, every value of the type of its
\* annotation (given or inferred) comes back from decode_line equal to
\* itself, under the key it was encoded with.
C8_RoundTripEveryValue ==
    BuiltinRoundTrip =>
        /\ Encoded => enc_result.ok
        /\ DecodedBack => GaveBack

\* C8, amended: the same for every value but a float NaN; a NaN comes back
\* as a NaN, which equals nothing.
C8_RoundTripButNaN ==
    BuiltinRoundTrip =>
        /\ Encoded => enc_result.ok
        /\ (DecodedBack /\ ~IsNaN(GivenValue)) => GaveBack
        /\ (DecodedBack /\ IsNaN(GivenValue)) =>
              /\ NoError /\ Len(out) = 1 /\ out[1].key = enc_input.key
              /\ IsNaN(out[1].value)

C8_Witness ==
    /\ BuiltinRoundTrip /\ DecodedBack
    /\ enc_input = KeyValue(S_x, PyTuple(S_Time, PyDatetime(1234, 1, 2, 4, 5, 6, 789000, <<-300>>)))
    /\ enc_result.v.key = S_x \o <<Bang>> \o S_Time
    /\ out = <<KeyValue(S_x, PyDatetime(1234, 1, 2, 4, 5, 6, 789000, <<-300>>))>>

\* the annotation encode_line works with
UsedAnnotation ==
    IF GivenAnnotation # NoAnnotation \/ types.none THEN GivenAnnotation
    ELSE InferAnnotation(types.items, GivenValue)

\* the value after the table conversion
Converted ==
    IF encoders.none \/ ~Known(UsedAnnotation, encoders) THEN Ok(GivenValue)
    ELSE ApplyEncoder(encoders.items[FirstMatch(encoders.items, UsedAnnotation)].fn,
                      GivenValue)

\* the table conversion raised nothing and the value the default handler is
\* given, or the value a custom handler returns, is not bytes
FinalNotBytes ==
    /\ Converted.ok
    /\ Converted.v.t # "bytes"
    /\ enc_default \in {EnsureEncoded, CustomSame}

C10_UnannotatedPassThrough ==
    /\ (LineHandledKV /\ ~HasBang(stream[pos].key)) =>
          /\ NoError /\ Len(out) > 0 /\ Last(out) = stream[pos]
          /\ fallback_calls = 0
    /\ (/\ Encoded /\ enc_input.value.t = "bytes"
        /\ UsedAnnotation = NoAnnotation /\ enc_default = EnsureEncoded) =>
          enc_result = Ok(enc_input)

C10_Witness ==
    /\ mode = "roundtrip"
    /\ enc_input = KeyValue(S_x, PyBytes(<<100, 97, 116, 97>>))
    /\ enc_result = Ok(enc_input)
    /\ out = <<enc_input>>

(***************************************************************************)
(* Explicit annotations, encode_block and the propagation of failures.     *)
(***************************************************************************)
\* the converter the encode table has for annotation a, applied to v
ConvertedBy(a, v) ==
    IF encoders.none \/ ~Known(a, encoders) THEN Ok(v)
    ELSE ApplyEncoder(encoders.items[FirstMatch(encoders.items, a)].fn, v)

\* C11: with an annotation given, encode_line does not look at the types:
\* its result is the same under every type table, the converter is the one
\* of the given annotation whatever the type of the value, and the key is
\* key!annotation.
C11_ExplicitAnnotationBypassesTypes ==
    (Encoded /\ GivenAnnotation # NoAnnotation) =>
        /\ \A tt \in TypeTables :
              encode_line(enc_input, encoders, enc_default, tt) = enc_result
        /\ enc_result.ok =>
              enc_result.v.key = enc_input.key \o <<Bang>> \o GivenAnnotation
        /\ ~ConvertedBy(GivenAnnotation, GivenValue).ok =>
              enc_result = ConvertedBy(GivenAnnotation, GivenValue)
        /\ (enc_result.ok /\ enc_default # CustomBytes) =>
              enc_result.v.value = ConvertedBy(GivenAnnotation, GivenValue).v

\* ('x', ('F', 1)) gives ('x!F', b'1.0') although int comes first in TYPES
C11_Witness ==
    /\ mode = "encode" /\ encoders = ENCODERS /\ types = TYPES
    /\ enc_default = EnsureEncoded
    /\ enc_input = KeyValue(S_x, PyTuple(S_F, PyInt(1)))
    /\ enc_result = Ok(KeyValue(S_x \o <<Bang>> \o S_F, PyBytes(<<49, 46, 48>>)))

\* the result of encode_line on the i-th input of encode_block
LineResult(i) == encode_line(lines[i], encoders, enc_default, types)
\* every record of the input encodes
AllEncode == \A i \in 1..Len(lines) : LineResult(i).ok
IsSentinel(l) == l = Pending \/ l = Newline

\* C12: encode_block on an input whose records all encode emits, for the
\* inputs taken so far, one output each: the i-th output is encode_line of
\* the i-th input under the same encoders, default and types, a not-ready or
\* terminator sentinel is emitted unchanged at its position, a terminator
\* does not end the block, and the block ends only with its input, the output
\* then being as long as the input.
C12_EncodeBlockOneToOne ==
    (mode = "encode_block" /\ AllEncode) =>
        /\ NoError
        /\ Len(enc_out) = enc_pos
        /\ \A i \in 1..enc_pos :
              /\ Ok(enc_out[i]) = LineResult(i)
              /\ IsSentinel(lines[i]) => enc_out[i] = lines[i]
        /\ outcome = "returned" => Len(enc_out) = Len(lines)

C12_Witness ==
    /\ mode = "encode_block" /\ outcome = "returned"
    /\ encoders = ENCODERS /\ enc_default = EnsureEncoded /\ types = TYPES
    /\ lines = <<Newline, KeyValue(S_x, PyInt(1))>>
    /\ enc_out = <<Newline, KeyValue(S_x \o <<Bang>> \o S_I, PyBytes(<<49>>))>>

\* what one turn of the loop of decode_line makes of the element l, with the
\* table tbl and the fallback d: the result it yields or the exception it
\* raises
DecodeRecord(l, tbl, d) ==
    IF l.t # "kv" \/ ~HasBang(l.key) THEN Ok(l)
    ELSE LET k == SplitKey(l.key)[1]
             a == SplitKey(l.key)[2]
             m == FirstMatch(tbl.items, a)
             r == IF m # 0 THEN ApplyDecoder(tbl.items[m].fn, l.value)
                  ELSE CallDefault(d, a, l.value)
         IN  IF tbl.none \/ (m = 0 /\ d = NullDefault)
             THEN Ok(KeyValue(k, PyTuple(a, l.value)))
             ELSE IF r.ok THEN Ok(KeyValue(k, r.v)) ELSE r

\* what the decode_line calls of decode_block make of stream[i]
BlockResult(i) == DecodeRecord(stream[i], decoders, BlockLineDefault(default))
\* the elements of the stream, and of the input of encode_block, that fail
FailingRecords == { i \in 1..Len(stream) : ~BlockResult(i).ok }
FailingLines == { i \in 1..Len(lines) : ~LineResult(i).ok }
Min(S) == CHOOSE n \in S : \A m \in S : n <= m

\* C13: decode_block and encode_block let every exception but the EOFError
\* of the exhausted stream through: once the first failing record has been
\* taken, the outcome of the block is the exception that record raised, the
\* results of all earlier records have been emitted in order, nothing has
\* been emitted for the failing record and nothing after it has been taken;
\* until then the block raises nothing.
C13_BlockSurfacesFailure ==
    /\ mode = "block" =>
          /\ outcome # "EOFError"
          /\ ~NoError => pos \in FailingRecords
          /\ \A f \in FailingRecords : (f = Min(FailingRecords) /\ f <= pos) =>
                /\ pos = f
                /\ outcome = BlockResult(f).exc
                /\ Len(out) = f - 1
                /\ \A j \in 1..(f - 1) : Ok(out[j]) = BlockResult(j)
    /\ mode = "encode_block" =>
          /\ ~NoError => enc_pos \in FailingLines
          /\ \A f \in FailingLines : (f = Min(FailingLines) /\ f <= enc_pos) =>
                /\ enc_pos = f
                /\ outcome = LineResult(f).exc
                /\ Len(enc_out) = f - 1
                /\ \A j \in 1..(f - 1) : Ok(enc_out[j]) = LineResult(j)

\* list(decode_block(iter([('x!I', b'42'), ('x!Int', b'z'), ('x', b'1')])))
\* raises the ValueError of int(b'z') after (x, 42)
C13_Witness ==
    /\ mode = "block" /\ decoders = DECODERS
    /\ stream = << KeyValue(S_x \o <<Bang>> \o S_I, PyBytes(<<52, 50>>)),
                   KeyValue(S_x \o <<Bang>> \o S_Int, PyBytes(<<122>>)),
                   KeyValue(S_x, PyBytes(<<49>>)) >>
    /\ outcome = "ValueError" /\ pos = 2
    /\ out = << KeyValue(S_x, PyInt(42)) >>

\* the stream elements the running (or last) decode_line call has taken
Consumed == (call_start + 1)..pos
\* how many of the first n stream elements are terminators or records
RECURSIVE NonPending(_)
NonPending(n) ==
    IF n = 0 THEN 0
    ELSE NonPending(n - 1) + (IF stream[n] = Pending THEN 0 ELSE 1)
\* the running decode_line call has yielded its result, or has returned
\* after it
CallDone == dl_pc = "return" \/ (LineDriven /\ outcome = "returned")

\* C14: a decode_line call takes the stream elements up to and including the
\* first terminator or key/value record and no more: all it took before that
\* one are not-ready markers; having handled it the call has emitted one
\* result that is not a not-ready marker, as its last, and takes nothing
\* further; in decode_block each call starts where the call before it
\* stopped, right after a terminator or record, so that there is one call
\* per terminator or record taken, and the results stand in stream order.
C14_OneRecordPerCall ==
    mode \in {"line", "block", "roundtrip"} =>
        /\ \A i \in Consumed : i < pos => stream[i] = Pending
        /\ dl_pc = "for" => \A i \in Consumed : stream[i] = Pending
        /\ CallDone =>
              /\ pos > call_start /\ stream[pos] # Pending
              /\ Len(out) = pos /\ out[pos] # Pending
              /\ \A i \in Consumed : i < pos => out[i] = Pending
        /\ (LineDriven /\ outcome = "returned") =>
              pos = LeadingPending(stream) + 1
        /\ mode = "block" =>
              /\ call_start = 0 \/ stream[call_start] # Pending
              /\ calls = NonPending(pos)
                         + (IF dl_pc = "return" \/ ~NoError THEN 0 ELSE 1)
              /\ NoError =>
                    /\ Len(out) = pos
                    /\ \A i \in 1..pos : Ok(out[i]) = BlockResult(i)

\* in decode_block on [None, ('x', b'1'), None] the first call took None and
\* the record, the second call the None after it
C14_Witness ==
    /\ mode = "block" /\ decoders = DECODERS
    /\ stream = << Pending, KeyValue(S_x, PyBytes(<<49>>)), Pending >>
    /\ calls = 2 /\ call_start = 2 /\ pos = 3 /\ dl_pc = "for"
    /\ out = << Pending, KeyValue(S_x, PyBytes(<<49>>)), Pending >>

\* the first synonym set of the table that holds a, by its place; 0 if none
FirstHolding(table, a) ==
    IF Known(a, table)
    THEN Min({ i \in 1..Len(table.items) :
                 \E j \in 1..Len(table.items[i].names) :
                     table.items[i].names[j] = a })
    ELSE 0
\* decode_line, driven by the caller or by decode_block, has just handled
\* the annotated record stream[pos]
HandledAnnotated == (LineHandledKV \/ BlockHandledKV) /\ HasBang(stream[pos].key)
\* the records i and j of the stream have the same plain key and raw bytes and
\* annotations whose first synonym set is the same one
Synonymous(i, j) ==
    /\ stream[i].t = "kv" /\ stream[j].t = "kv"
    /\ stream[i].value = stream[j].value
    /\ \E pi \in Splits(stream[i].key) : \E pj \in Splits(stream[j].key) :
          /\ pi[1] = pj[1]
          /\ FirstHolding(decoders, pi[2]) # 0
          /\ FirstHolding(decoders, pi[2]) = FirstHolding(decoders, pj[2])

\* C15: decode_line takes the text before the first '!' of an annotated key
\* as the key and all the text after it as the annotation, be it empty or
\* with a '!' in it; with an enabled table that holds the annotation, the
\* converter applied is that of the first synonym set, in table order, that
\* holds it, and the fallback is not called; two names of one synonym set
\* give the same result.
C15_FirstBangFirstSynonymSet ==
    /\ HandledAnnotated =>
          \A pa \in Splits(stream[pos].key) :
              /\ decoders.none =>
                    /\ NoError
                    /\ Last(out) = KeyValue(pa[1], PyTuple(pa[2], stream[pos].value))
              /\ (~decoders.none /\ Known(pa[2], decoders)) =>
                    LET r == ApplyDecoder(
                                 decoders.items[FirstHolding(decoders, pa[2])].fn,
                                 stream[pos].value)
                    IN  /\ fallback_calls = 0
                        /\ IF r.ok
                           THEN NoError /\ Last(out) = KeyValue(pa[1], r.v)
                           ELSE outcome = r.exc /\ Len(out) = pos - 1
    /\ (mode = "block" /\ ~decoders.none /\ NoError) =>
          \A i \in 1..pos : \A j \in 1..pos : Synonymous(i, j) => out[i] = out[j]

\* decode_line on ('!I!F', b'1') with a table whose first synonym set holds
\* 'I' and 'I!F' and whose second holds 'Int' and 'I'
C15_Witness ==
    /\ mode = "line" /\ decoders = OverlappingDecoders
    /\ stream = << KeyValue(<<Bang>> \o S_I \o <<Bang>> \o S_F, PyBytes(<<49>>)) >>
    /\ out = << KeyValue(<<>>, PyStr(<<49>>)) >>
    /\ fallback_calls = 0

\* the places of the type table whose type the value given is an instance of
MatchingTypes ==
    IF types.none THEN {}
    ELSE { i \in 1..Len(types.items) : IsInstance(GivenValue, types.items[i].type) }
\* the form of the input with the value bare, and with the pair (None, value)
BareForm == KeyValue(enc_input.key, GivenValue)
NonePairForm == KeyValue(enc_input.key, PyTuple(NoAnnotation, GivenValue))
\* the result for a value that no converter has touched: the default
\* handler and the final test of its result
Unconverted ==
    LET h == CallEncDefault(enc_default, NoAnnotation, GivenValue)
    IN  IF ~h.ok THEN h
        ELSE IF ~ensure_encoded(NoAnnotation, h.v).ok
             THEN ensure_encoded(NoAnnotation, h.v)
             ELSE Ok(KeyValue(enc_input.key, h.v))

\* C16: with no annotation given, as a bare value or as the pair
\* (None, value), which give the same result, encode_line takes the
\* annotation of the first entry of the type table, in table order, whose
\* type the value is an instance of, and converts and names the key by it;
\* with no such entry, or the type table disabled, the key stays bare and
\* the result is that of the default handler on the value as given.
C16_InferredFromFirstMatchingType ==
    (Encoded /\ GivenAnnotation = NoAnnotation) =>
        /\ encode_line(BareForm, encoders, enc_default, types) = enc_result
        /\ encode_line(NonePairForm, encoders, enc_default, types) = enc_result
        /\ MatchingTypes # {} =>
              LET a == types.items[Min(MatchingTypes)].a
              IN  /\ enc_result.ok => enc_result.v.key = enc_input.key \o <<Bang>> \o a
                  /\ ~ConvertedBy(a, GivenValue).ok =>
                        enc_result = ConvertedBy(a, GivenValue)
                  /\ (enc_result.ok /\ enc_default # CustomBytes) =>
                        enc_result.v.value = ConvertedBy(a, GivenValue).v
        /\ MatchingTypes = {} => enc_result = Unconverted

\* encode_line(('x', 1), ENCODERS, f, {object: 'Q', int: 'I'}) with f
\* returning b'?': the int is an instance of both types, the first names it
C16_Witness ==
    /\ mode = "encode" /\ encoders = ENCODERS /\ types = ObjectFirstTypes
    /\ enc_default = CustomBytes
    /\ enc_input = KeyValue(S_x, PyInt(1))
    /\ enc_result = Ok(KeyValue(S_x \o <<Bang>> \o S_Q, PyBytes(<<63>>)))

\* the annotation that is set when the key is built: the one given, else the
\* one of the first matching entry of the type table, else none
AnnotationSet ==
    IF GivenAnnotation # NoAnnotation THEN GivenAnnotation
    ELSE IF MatchingTypes # {} THEN types.items[Min(MatchingTypes)].a
    ELSE NoAnnotation
\* the key of a record with that annotation
ExpectedKey ==
    IF AnnotationSet # NoAnnotation
    THEN enc_input.key \o <<Bang>> \o AnnotationSet
    ELSE enc_input.key

\* C17: the key of every record encode_line returns is the input key
\* followed by '!' and the annotation when an annotation is set, given or
\* inferred, and the input key alone when none is; and so it is with the
\* same input and types under every encode table, disabled, empty, holding
\* the annotation or not, and under every default handler.
C17_KeySuffixedIffAnnotated ==
    Encoded =>
        /\ enc_result.ok => enc_result.v.key = ExpectedKey
        /\ \A e \in EncoderTables : \A h \in EncDefaults :
              LET r == encode_line(enc_input, e, h, types)
              IN  r.ok => r.v.key = ExpectedKey

\* encode_line(('x', ('F', b'7')), None) gives ('x!F', b'7')
C17_Witness ==
    /\ mode = "encode" /\ encoders = NoTable /\ enc_default = EnsureEncoded
    /\ enc_input = KeyValue(S_x, PyTuple(S_F, PyBytes(<<55>>)))
    /\ enc_result = Ok(KeyValue(S_x \o <<Bang>> \o S_F, PyBytes(<<55>>)))

\* how many times '!' stands in the key
RECURSIVE Bangs(_)
Bangs(k) == IF k = <<>> THEN 0 ELSE (IF k[1] = Bang THEN 1 ELSE 0) + Bangs(Tail(k))
\* what decode_line takes the emitted key for: key and annotation when it
\* holds a '!', the key with no annotation when it does not
Framing(k) == IF HasBang(k) THEN SplitKey(k) ELSE <<k, NoAnnotation>>

\* C18: the key of every record encode_line returns, split as decode_line
\* splits it, gives back the input key and the annotation encode_line set,
\* a bare key being taken as not annotated, whatever the input key, and holds
\* at most one '!'.
C18_FramingRecoverable ==
    (Encoded /\ enc_result.ok) =>
        /\ Framing(enc_result.v.key) = <<enc_input.key, AnnotationSet>>
        /\ Bangs(enc_result.v.key) <= 1

====
